---- MODULE Spec2Model ----
(***************************************************************************)
(* Model of the Copy Path plugin (src/main.ts): the settings object, the   *)
(* persisted settings blob, the copy handlers registered by onload, the    *)
(* asynchronous clipboard write of copyPathsToClipboard and the settings   *)
(* tab's onChange handlers.                                                *)
(*                                                                         *)
(* Each handler runs to its first await as one step (the host's event loop *)
(* is single-threaded); the continuation after `await writeText` is a      *)
(* second step, Settle.  `pending` holds the suspended invocations.        *)
(* `last` records what the most recent handler run read and did (the host  *)
(* state it was given, the calls it made, the notices it showed).          *)
(***************************************************************************)
EXTENDS Integers, Sequences, FiniteSets, TLC

VARIABLES
    settings,   \* this.settings
    data,       \* the persisted blob behind loadData / saveData
    loaded,     \* onload has run: handlers and settings tab are registered
    pending,    \* invocations of copyPathsToClipboard suspended at the await, in issue order
    clipboard,  \* text held by the system clipboard
    last        \* the most recent handler run: its inputs and its observable calls

vars == <<settings, data, loaded, pending, clipboard, last>>

\* Bound: clipboard writes that may be pending at the same time.
MaxPending == 2

(***************************************************************************)
(* Settings                                                                *)
(***************************************************************************)
DEFAULT_SETTINGS == [showNotice |-> TRUE, quoteStyle |-> "single"]

\* Values a persisted field may hold.  "backtick" stands for a value written
\* by another version of the plugin: not one of the current "single"/"double".
BlobValues(k) == IF k = "showNotice" THEN BOOLEAN ELSE {"single", "double", "backtick"}

\* Every persisted blob over the two fields: each field absent or present.
\* The empty blob is also what loadData yields when nothing was saved (null).
Blobs ==
    UNION { { [k \in ks |-> IF k = "showNotice" THEN b ELSE q] :
                b \in BlobValues("showNotice"), q \in BlobValues("quoteStyle") } :
            ks \in SUBSET {"showNotice", "quoteStyle"} }

\* Object.assign({}, defaults, blob): later sources overwrite earlier ones.
ObjectAssign(defaults, blob) ==
    [k \in DOMAIN defaults \cup DOMAIN blob |->
        IF k \in DOMAIN blob THEN blob[k] ELSE defaults[k]]

(***************************************************************************)
(* Host objects                                                            *)
(***************************************************************************)
TFile(p)   == [kind |-> "file", path |-> p]
TFolder(p) == [kind |-> "folder", path |-> p]
\* A TAbstractFile that is neither a TFile nor a TFolder.
TOther(p)  == [kind |-> "other", path |-> p]
Null       == [kind |-> "null", path |-> ""]

\* workspace.getActiveFile(): a TFile or null.
ActiveFiles == {Null, TFile("a.md")}

\* The entry a file-menu event is raised for.
MenuFiles == {TFile("a.md"), TOther("x")}

\* The entry lists a files-menu event is raised for: empty, only a non-file,
\* a folder twice around a non-file.
MenuFileLists ==
    { <<>>,
      <<TOther("x")>>,
      <<TFolder("d"), TOther("x"), TFolder("d")>> }

\* vault.getAbstractFileByPath(path) when the vault knows the path.
VaultEntry(p) == IF p = "d" THEN TFolder(p) ELSE TFile(p)

\* One entry of explorerView.fileItems: its key, the state of item.selfEl
\* ("noSelfEl": missing, "noClassList": without classList, "plain" / "is-selected":
\* present without / with the class), and whether the vault knows the key
\* (vault.getAbstractFileByPath(path) returns the entry) or not (returns null).
FileItem(p, e, known) ==
    [path |-> p, el |-> e, file |-> IF known THEN VaultEntry(p) ELSE Null]

\* The file explorer as the host presents it: no leaf of type file-explorer,
\* a leaf without view, a view without fileItems, or fileItems in key order.
Explorer(s, items) == [shape |-> s, fileItems |-> items]

Explorers ==
    { Explorer("noLeaf", <<>>),
      Explorer("noView", <<>>),
      Explorer("noFileItems", <<>>),
      Explorer("ok", <<>>),
      Explorer("ok", <<FileItem("d", "plain", TRUE), FileItem("a.md", "plain", TRUE)>>),
      Explorer("ok", <<FileItem("d", "noSelfEl", TRUE), FileItem("a.md", "noClassList", TRUE)>>),
      Explorer("ok", <<FileItem("d", "is-selected", TRUE), FileItem("a.md", "is-selected", TRUE)>>),
      Explorer("ok", <<FileItem("d", "is-selected", FALSE), FileItem("a.md", "is-selected", TRUE)>>),
      Explorer("ok", <<FileItem("d", "plain", TRUE), FileItem("a.md", "is-selected", FALSE)>>) }

(***************************************************************************)
(* Pure helpers of CopyPathPlugin                                          *)
(***************************************************************************)
RECURSIVE SelectedFiles_IgnoresSelection(_)
\* Mutant of SelectedFiles: the "is-selected" test is dropped.
SelectedFiles_IgnoresSelection(items) ==
    IF items = <<>> THEN <<>>
    ELSE LET item == Head(items) IN
         (IF item.file # Null THEN <<item.file>> ELSE <<>>)
         \o SelectedFiles_IgnoresSelection(Tail(items))

RECURSIVE SelectedFiles(_)
\* The loop of getSelectedFilesFromExplorer over Object.entries(fileItems).
SelectedFiles(items) ==
    IF items = <<>> THEN <<>>
    ELSE LET item == Head(items) IN
         (IF item.el = "is-selected" /\ item.file # Null THEN <<item.file>> ELSE <<>>)
         \o SelectedFiles(Tail(items))

getSelectedFilesFromExplorer(explorer) ==
    IF explorer.shape = "noLeaf" THEN <<>>
    ELSE IF explorer.shape = "ok" THEN SelectedFiles(explorer.fileItems)
    ELSE <<>>

RECURSIVE collectAllPaths(_)
collectAllPaths(items) ==
    IF items = <<>> THEN <<>>
    ELSE LET item == Head(items) IN
         (IF item.kind = "file" THEN <<item.path>>
          ELSE IF item.kind = "folder" THEN <<item.path>>
          ELSE <<>>)
         \o collectAllPaths(Tail(items))

RECURSIVE Join(_, _)
\* Array.prototype.join
Join(strs, sep) ==
    IF strs = <<>> THEN ""
    ELSE IF Len(strs) = 1 THEN strs[1]
    ELSE strs[1] \o sep \o Join(Tail(strs), sep)

\* Mutant of formatPaths: joins with "," instead of ", ".
formatPaths_JoinsWithoutSpace(paths) ==
    LET quote == IF settings.quoteStyle = "single" THEN "'" ELSE "\"" IN
    Join([i \in 1..Len(paths) |-> quote \o paths[i] \o quote], ",")

formatPaths(paths) ==
    LET quote == IF settings.quoteStyle = "single" THEN "'" ELSE "\"" IN
    Join([i \in 1..Len(paths) |-> quote \o paths[i] \o quote], ", ")

\* Mutant of SuccessMessage: the singular form is lost.
SuccessMessage_AlwaysCounts(count) == ToString(count) \o " paths copied"

\* The success message of copyPathsToClipboard.
SuccessMessage(count) ==
    IF count = 1 THEN "Path copied" ELSE ToString(count) \o " paths copied"

(***************************************************************************)
(* The record of a handler run                                             *)
(***************************************************************************)
NoFrame == [paths |-> <<>>, formattedPaths |-> ""]

NoEvent ==
    [ op      |-> "none",   \* which handler ran
      active  |-> Null,     \* getActiveFile() as the handler saw it
      shape   |-> "-",      \* the explorer's shape as the handler saw it
      marked  |-> <<>>,     \* the fileItems carrying "is-selected", in key order
      called  |-> FALSE,    \* copyPathsToClipboard was called
      files   |-> <<>>,     \* ... with this argument
      wrote   |-> <<>>,     \* texts handed to navigator.clipboard.writeText
      notices |-> <<>>,     \* texts of the Notices created
      frame   |-> NoFrame,  \* the invocation a Settle step resumed
      idx     |-> 0,        \* ... and its position among the pending ones
      after   |-> "-",      \* ... and the settings change made just before, if any
      outcome |-> "-",      \* "resolved" / "rejected" for a Settle step
      change  |-> "-",      \* the setting an onChange handler changed, and how
      logged  |-> FALSE,    \* console.error was called
      threw   |-> FALSE ]   \* an exception left the handler

RECURSIVE Marked(_)
\* What the user sees selected in the explorer, whatever the vault knows.
Marked(items) ==
    IF items = <<>> THEN <<>>
    ELSE (IF Head(items).el = "is-selected" THEN <<Head(items)>> ELSE <<>>)
         \o Marked(Tail(items))

(***************************************************************************)
(* Handlers                                                                *)
(***************************************************************************)
Init ==
    /\ settings = DEFAULT_SETTINGS
    /\ data \in Blobs
    /\ loaded = FALSE
    /\ pending = <<>>
    /\ clipboard = "previous"
    /\ last = NoEvent

\* onload: loadSettings, then the handlers are registered.
LoadSettings ==
    /\ ~loaded
    /\ settings' = ObjectAssign(DEFAULT_SETTINGS, data)
    /\ loaded' = TRUE
    /\ last' = [NoEvent EXCEPT !.op = "load"]
    /\ UNCHANGED <<data, pending, clipboard>>

\* Mutant of copyPathsToClipboard: the early return on no paths is missing.
copyPathsToClipboard_NoEarlyReturn(files, ev) ==
    LET paths == collectAllPaths(files)
        ev1   == [ev EXCEPT !.called = TRUE, !.files = files]
        formattedPaths == formatPaths(paths)
    IN  /\ Len(pending) < MaxPending
        /\ pending' = Append(pending,
                             [paths |-> paths, formattedPaths |-> formattedPaths])
        /\ last' = [ev1 EXCEPT !.wrote = Append(@, formattedPaths)]
        /\ UNCHANGED clipboard

\* copyPathsToClipboard up to its first await (or to its early return).
copyPathsToClipboard(files, ev) ==
    LET paths == collectAllPaths(files)
        ev1   == [ev EXCEPT !.called = TRUE, !.files = files]
    IN  IF Len(paths) = 0
        THEN /\ last' = [ev1 EXCEPT !.notices = Append(@, "No paths to copy")]
             /\ UNCHANGED <<pending, clipboard>>
        ELSE LET formattedPaths == formatPaths(paths) IN
             /\ Len(pending) < MaxPending
             /\ pending' = Append(pending,
                                  [paths          |-> paths,
                                   formattedPaths |-> formattedPaths])
             /\ last' = [ev1 EXCEPT !.wrote = Append(@, formattedPaths)]
             /\ UNCHANGED clipboard

\* Mutant of copyActiveFilePath: the null test is missing.
copyActiveFilePath_NoNullTest(activeFile, ev) ==
    copyPathsToClipboard(<<activeFile>>, ev)

copyActiveFilePath(activeFile, ev) ==
    IF activeFile # Null
    THEN copyPathsToClipboard(<<activeFile>>, ev)
    ELSE /\ last' = [ev EXCEPT !.notices = Append(@, "No active file")]
         /\ UNCHANGED <<pending, clipboard>>

copySelectedFilesPaths(activeFile, explorer, ev) ==
    LET selectedFiles == getSelectedFilesFromExplorer(explorer) IN
    IF Len(selectedFiles) > 0
    THEN copyPathsToClipboard(selectedFiles, ev)
    ELSE copyActiveFilePath(activeFile, ev)

\* The ribbon icon's callback.
RibbonClick ==
    /\ loaded
    /\ \E activeFile \in ActiveFiles :
          copyActiveFilePath(activeFile,
              [NoEvent EXCEPT !.op = "ribbon", !.active = activeFile])
    /\ UNCHANGED <<settings, data, loaded>>

\* Command copy-active-file-path.
CommandCopyActive ==
    /\ loaded
    /\ \E activeFile \in ActiveFiles :
          copyActiveFilePath(activeFile,
              [NoEvent EXCEPT !.op = "copy-active-file-path", !.active = activeFile])
    /\ UNCHANGED <<settings, data, loaded>>

\* Command copy-selected-files-path.
CommandCopySelected ==
    /\ loaded
    /\ \E activeFile \in ActiveFiles, explorer \in Explorers :
          copySelectedFilesPaths(activeFile, explorer,
              [NoEvent EXCEPT !.op = "copy-selected-files-path",
                              !.active = activeFile,
                              !.shape = explorer.shape,
                              !.marked = Marked(explorer.fileItems)])
    /\ UNCHANGED <<settings, data, loaded>>

\* "Copy path" of the file-menu.
FileMenuClick ==
    /\ loaded
    /\ \E file \in MenuFiles :
          copyPathsToClipboard(<<file>>, [NoEvent EXCEPT !.op = "file-menu"])
    /\ UNCHANGED <<settings, data, loaded>>

\* "Copy paths" of the files-menu.
FilesMenuClick ==
    /\ loaded
    /\ \E files \in MenuFileLists :
          copyPathsToClipboard(files, [NoEvent EXCEPT !.op = "files-menu"])
    /\ UNCHANGED <<settings, data, loaded>>

Remove(seq, i) == SubSeq(seq, 1, i - 1) \o SubSeq(seq, i + 1, Len(seq))

\* Mutant of Continue: the failure notice is shown only when showNotice is set.
Continue_FailureNoticeGated(frame, idx, resolved) ==
    LET ev == [NoEvent EXCEPT !.op = "settle", !.frame = frame, !.idx = idx,
                              !.after = last.change,
                              !.outcome = IF resolved THEN "resolved" ELSE "rejected"]
    IN  IF resolved
        THEN /\ clipboard' = frame.formattedPaths
             /\ last' = IF settings.showNotice
                        THEN [ev EXCEPT !.notices =
                                 Append(@, SuccessMessage(Len(frame.paths)))]
                        ELSE ev
        ELSE /\ clipboard' = clipboard
             /\ last' = IF settings.showNotice
                        THEN [ev EXCEPT !.notices = Append(@, "Failed to copy to clipboard"),
                                        !.logged = TRUE]
                        ELSE [ev EXCEPT !.logged = TRUE]

\* Mutant of Continue: no try/catch around the await, the rejection escapes.
Continue_NoCatch(frame, idx, resolved) ==
    LET ev == [NoEvent EXCEPT !.op = "settle", !.frame = frame, !.idx = idx,
                              !.after = last.change,
                              !.outcome = IF resolved THEN "resolved" ELSE "rejected"]
    IN  IF resolved
        THEN /\ clipboard' = frame.formattedPaths
             /\ last' = IF settings.showNotice
                        THEN [ev EXCEPT !.notices =
                                 Append(@, SuccessMessage(Len(frame.paths)))]
                        ELSE ev
        ELSE /\ clipboard' = clipboard
             /\ last' = [ev EXCEPT !.threw = TRUE]

\* Mutant of Continue: the text is formatted when the write settles, from the
\* quote style of that moment.
Continue_FormatsLate(frame, idx, resolved) ==
    LET ev == [NoEvent EXCEPT !.op = "settle", !.frame = frame, !.idx = idx,
                              !.after = last.change,
                              !.outcome = IF resolved THEN "resolved" ELSE "rejected"]
    IN  IF resolved
        THEN /\ clipboard' = formatPaths(frame.paths)
             /\ last' = IF settings.showNotice
                        THEN [ev EXCEPT !.notices =
                                 Append(@, SuccessMessage(Len(frame.paths)))]
                        ELSE ev
        ELSE /\ clipboard' = clipboard
             /\ last' = [ev EXCEPT !.notices = Append(@, "Failed to copy to clipboard"),
                                   !.logged = TRUE]

\* The rest of copyPathsToClipboard, run when writeText settles: the try
\* block's tail when it resolved, the catch block when it rejected.  A write
\* that resolves has put its text on the clipboard; one that rejects has not.
Continue(frame, idx, resolved) ==
    LET ev == [NoEvent EXCEPT !.op = "settle", !.frame = frame, !.idx = idx,
                              !.after = last.change,
                              !.outcome = IF resolved THEN "resolved" ELSE "rejected"]
    IN  IF resolved
        THEN /\ clipboard' = frame.formattedPaths
             /\ last' = IF settings.showNotice
                        THEN [ev EXCEPT !.notices =
                                 Append(@, SuccessMessage(Len(frame.paths)))]
                        ELSE ev
        ELSE /\ clipboard' = clipboard
             /\ last' = [ev EXCEPT !.notices = Append(@, "Failed to copy to clipboard"),
                                   !.logged = TRUE]

\* Mutant of Settle: a settling write cancels the other pending invocations.
Settle_CancelsOthers ==
    /\ \E i \in 1..Len(pending), resolved \in BOOLEAN :
          /\ Continue(pending[i], i, resolved)
          /\ pending' = <<>>
    /\ UNCHANGED <<settings, data, loaded>>

Settle ==
    /\ \E i \in 1..Len(pending), resolved \in BOOLEAN :
          /\ Continue(pending[i], i, resolved)
          /\ pending' = Remove(pending, i)
    /\ UNCHANGED <<settings, data, loaded>>

\* What an onChange handler did to the settings, for the record of its run.
Change(old, new) ==
    IF old.showNotice # new.showNotice
    THEN (IF new.showNotice THEN "showNotice on" ELSE "showNotice off")
    ELSE IF old.quoteStyle # new.quoteStyle THEN "quoteStyle " \o new.quoteStyle
    ELSE "-"

\* The toggle's onChange.
SetShowNotice ==
    /\ loaded
    /\ \E value \in BOOLEAN :
          /\ settings' = [settings EXCEPT !.showNotice = value]
          /\ data' = settings'
    /\ last' = [NoEvent EXCEPT !.op = "setShowNotice",
                                !.change = Change(settings, settings')]
    /\ UNCHANGED <<loaded, pending, clipboard>>

\* The dropdown's onChange.
SetQuoteStyle ==
    /\ loaded
    /\ \E value \in {"single", "double"} :
          /\ settings' = [settings EXCEPT !.quoteStyle = value]
          /\ data' = settings'
    /\ last' = [NoEvent EXCEPT !.op = "setQuoteStyle",
                                !.change = Change(settings, settings')]
    /\ UNCHANGED <<loaded, pending, clipboard>>

Next ==
    \/ LoadSettings
    \/ RibbonClick
    \/ CommandCopyActive
    \/ CommandCopySelected
    \/ FileMenuClick
    \/ FilesMenuClick
    \/ Settle
    \/ SetShowNotice
    \/ SetQuoteStyle

Spec == Init /\ [][Next]_vars

(***************************************************************************)
(* Vocabulary of the properties                                            *)
(***************************************************************************)
IsTrigger(op) ==
    op \in {"ribbon", "copy-active-file-path", "copy-selected-files-path",
            "file-menu", "files-menu"}

IsFileOrFolder(e) == e.kind \in {"file", "folder"}

HasFileOrFolder(files) == \E i \in 1..Len(files) : IsFileOrFolder(files[i])

RECURSIVE QuotedList(_, _)
\* The paths of the file and folder entries of `files`, in order, each between
\* two `q`, separated by a comma and one space.
QuotedList(files, q) ==
    IF files = <<>> THEN ""
    ELSE LET rest == QuotedList(Tail(files), q) IN
         IF IsFileOrFolder(Head(files))
         THEN q \o Head(files).path \o q \o (IF rest = "" THEN "" ELSE ", " \o rest)
         ELSE rest

\* What "Copy active file path" does when the focused file is `active`, as the
\* record of a handler run shows it.
ActsAsCopyActive(ev) ==
    IF ev.active = Null
    THEN ~ev.called /\ ev.wrote = <<>> /\ ev.notices = <<"No active file">>
    ELSE ev.called /\ ev.files = <<ev.active>>
         /\ Len(ev.wrote) = 1 /\ ev.notices = <<>>

C2_NoPathsNoWrite ==
    [][ (last'.called /\ ~HasFileOrFolder(last'.files))
        => /\ last'.notices = <<"No paths to copy">>
           /\ last'.wrote = <<>>
           /\ pending' = pending
           /\ clipboard' = clipboard ]_vars

C2_Witness ==
    /\ last.called
    /\ last.files = <<TOther("x")>>
    /\ ~settings.showNotice
    /\ last.notices = <<"No paths to copy">>
    /\ last.wrote = <<>>
    /\ clipboard # "previous"

(***************************************************************************)
(* C3: when the clipboard write of an invocation rejects, the invocation   *)
(* shows "Failed to copy to clipboard" and no other notice, with           *)
(* showNotice set or not.                                                  *)
(***************************************************************************)
C3_RejectionAlwaysNoticed ==
    (last.op = "settle" /\ last.outcome = "rejected")
    => last.notices = <<"Failed to copy to clipboard">>

C3_Witness ==
    /\ last.op = "settle"
    /\ last.outcome = "rejected"
    /\ ~settings.showNotice
    /\ last.notices = <<"Failed to copy to clipboard">>

(***************************************************************************)
(* C4: when the clipboard write of an invocation with n collected paths    *)
(* resolves: with showNotice set exactly one notice is shown, "Path        *)
(* copied" for n = 1 and "<n> paths copied" for n > 1; with showNotice     *)
(* not set no notice is shown.                                             *)
(***************************************************************************)
C4_SuccessNotice ==
    (last.op = "settle" /\ last.outcome = "resolved")
    => LET n == Len(last.frame.paths) IN
       /\ n >= 1
       /\ settings.showNotice /\ n = 1 => last.notices = <<"Path copied">>
       /\ settings.showNotice /\ n > 1
            => last.notices = <<ToString(n) \o " paths copied">>
       /\ ~settings.showNotice => last.notices = <<>>

C4_Witness ==
    /\ last.op = "settle"
    /\ last.outcome = "resolved"
    /\ settings.showNotice
    /\ Len(last.frame.paths) = 2
    /\ last.notices = <<"2 paths copied">>

(***************************************************************************)
(* C5: no handler run lets an exception out; a run hands at most one text  *)
(* to the clipboard write and the continuation of an invocation hands      *)
(* none (no retry); a triggered action that issues a write shows no notice *)
(* before the write settles; and every failing path (no active file, no    *)
(* paths, rejected write) shows exactly one notice.                        *)
(***************************************************************************)
C5_NoEscapeOneWriteOneNotice ==
    /\ ~last.threw
    /\ Len(last.wrote) <= 1
    /\ last.op = "settle" => last.wrote = <<>>
    /\ IsTrigger(last.op) /\ last.wrote # <<>> => last.notices = <<>>
    /\ IsTrigger(last.op) /\ last.wrote = <<>> => Len(last.notices) = 1
    /\ last.op = "settle" /\ last.outcome = "rejected" => Len(last.notices) = 1

C5_Witness ==
    /\ last.op = "settle"
    /\ last.outcome = "rejected"
    /\ last.idx = 2
    /\ Len(last.notices) = 1
    /\ ~last.threw

(***************************************************************************)
(* C6 as stated: "Copy selected files path" copies exactly the entries     *)
(* marked selected in the explorer when at least one is marked, and acts   *)
(* as "Copy active file path" when none is.                                *)
(***************************************************************************)
C6_CopiesTheMarkedEntries ==
    last.op = "copy-selected-files-path"
    => IF last.marked # <<>>
       THEN /\ last.called
            /\ Len(last.files) = Len(last.marked)
            /\ \A i \in 1..Len(last.marked) : last.files[i].path = last.marked[i].path
       ELSE ActsAsCopyActive(last)

\* The marked entries the vault knows, in key order.
KnownMarked(ev) ==
    LET known == SelectSeq(ev.marked, LAMBDA item : item.file # Null) IN
    [i \in 1..Len(known) |-> known[i].file]

(***************************************************************************)
(* C6 amended: "Copy selected files path" copies exactly the marked        *)
(* entries that the vault resolves, in the explorer's key order, when      *)
(* there is at least one (the active file is then not consulted); when     *)
(* there is none (nothing marked, no marked entry resolved, the explorer   *)
(* absent or without fileItems, items without selfEl or classList) it      *)
(* acts as "Copy active file path" does in the same state.                 *)
(***************************************************************************)
C6_CopiesTheKnownMarkedEntries ==
    last.op = "copy-selected-files-path"
    => IF KnownMarked(last) # <<>>
       THEN last.called /\ last.files = KnownMarked(last)
       ELSE ActsAsCopyActive(last)

C6_Witness ==
    /\ last.op = "copy-selected-files-path"
    /\ Len(last.marked) = 2
    /\ last.marked[1].file = Null
    /\ last.active # Null
    /\ last.files = <<TFile("a.md")>>
    /\ Len(last.wrote) = 1

(***************************************************************************)
(* C7: "Copy active file path", from the command or the ribbon icon, with  *)
(* no focused file shows "No active file", does not call                   *)
(* copyPathsToClipboard and hands nothing to the clipboard write; with a   *)
(* focused file it calls copyPathsToClipboard with exactly that file.      *)
(***************************************************************************)
C7_CopyActive ==
    last.op \in {"ribbon", "copy-active-file-path"}
    => IF last.active = Null
       THEN /\ last.notices = <<"No active file">>
            /\ ~last.called
            /\ last.wrote = <<>>
       ELSE /\ last.called
            /\ last.files = <<last.active>>

C7_Witness ==
    /\ last.op = "ribbon"
    /\ last.active = Null
    /\ last.notices = <<"No active file">>
    /\ pending # <<>>

(***************************************************************************)
(* C8 as stated, for two overlapping invocations: the older write has just *)
(* resolved while the later-issued one was pending, and now that one       *)
(* settles too, so both have settled: the clipboard holds the text of the  *)
(* write issued last.                                                      *)
(***************************************************************************)
C8_LastIssuedWins ==
    [][ (last.op = "settle" /\ last.idx = 1 /\ last.outcome = "resolved"
            /\ Len(pending) = 1 /\ pending' = <<>>)
        => clipboard' = pending[1].formattedPaths ]_vars

(***************************************************************************)
(* C8 amended: overlapping invocations run independently.  A trigger while *)
(* writes are pending appends its own invocation with its own text and     *)
(* touches neither the pending ones nor the clipboard; a settling write    *)
(* resumes its own invocation only, whatever its position, and leaves the  *)
(* others pending and unaltered; a write that resolves leaves its own text *)
(* on the clipboard, so that once all have settled the clipboard holds the *)
(* text of the write that resolved last; a write that rejects leaves the   *)
(* clipboard, the settings and the persisted blob unchanged.               *)
(***************************************************************************)
C8_IndependentWrites ==
    [][ /\ (IsTrigger(last'.op) /\ last'.wrote # <<>>)
            => /\ pending' = Append(pending, pending'[Len(pending')])
               /\ pending'[Len(pending')].formattedPaths = last'.wrote[1]
               /\ clipboard' = clipboard
        /\ last'.op = "settle"
            => /\ last'.idx \in 1..Len(pending)
               /\ last'.frame = pending[last'.idx]
               /\ pending' = [j \in 1..(Len(pending) - 1) |->
                                 IF j < last'.idx THEN pending[j] ELSE pending[j + 1]]
               /\ last'.outcome = "resolved"
                    => clipboard' = pending[last'.idx].formattedPaths
               /\ last'.outcome = "rejected"
                    => clipboard' = clipboard /\ settings' = settings /\ data' = data
        /\ last'.op # "settle" => clipboard' = clipboard ]_vars

C8_Witness ==
    /\ last.op = "settle"
    /\ last.idx = 2
    /\ last.outcome = "resolved"
    /\ Len(pending) = 1
    /\ clipboard = last.frame.formattedPaths
    /\ pending[1].formattedPaths # clipboard

\* A value the current version of the plugin gives the field.
IsCurrentValue(k, v) ==
    IF k = "showNotice" THEN v \in BOOLEAN ELSE v \in {"single", "double"}

(***************************************************************************)
(* C9 as stated: after loadSettings a field absent from the blob has its   *)
(* default, a field present with a current value keeps it, and a           *)
(* quoteStyle that is missing or not one of single/double yields           *)
(* settings.quoteStyle = single.                                           *)
(***************************************************************************)
C9_LoadFallsBackToDefaults ==
    last.op = "load"
    => /\ \A k \in DOMAIN DEFAULT_SETTINGS :
            /\ k \notin DOMAIN data => settings[k] = DEFAULT_SETTINGS[k]
            /\ (k \in DOMAIN data /\ IsCurrentValue(k, data[k]))
               => settings[k] = data[k]
       /\ ("quoteStyle" \notin DOMAIN data
            \/ data["quoteStyle"] \notin {"single", "double"})
          => settings.quoteStyle = "single"

(***************************************************************************)
(* C10: the text of an invocation is formatted when it is triggered, from  *)
(* the quote style of that moment (anything but single gives the double    *)
(* quote); a change of either setting leaves the pending invocations and   *)
(* their texts as they are, and the write that resolves leaves the text    *)
(* formatted at trigger time on the clipboard; the success notice is shown *)
(* exactly when showNotice is set at the moment the write settles.         *)
(***************************************************************************)
C10_WhenSettingsAreRead ==
    [][ /\ (IsTrigger(last'.op) /\ last'.wrote # <<>>)
            => /\ last'.wrote[1] =
                     QuotedList(last'.files,
                                IF settings.quoteStyle = "single" THEN "'" ELSE "\"")
               /\ pending'[Len(pending')].formattedPaths = last'.wrote[1]
        /\ last'.op \in {"setShowNotice", "setQuoteStyle"} => pending' = pending
        /\ (last'.op = "settle" /\ last'.outcome = "resolved")
            => /\ clipboard' = pending[last'.idx].formattedPaths
               /\ (last'.notices # <<>>) <=> settings.showNotice ]_vars

C10_Witness ==
    /\ last.op = "settle"
    /\ last.outcome = "resolved"
    /\ last.after = "showNotice off"
    /\ last.notices = <<>>
    /\ clipboard = last.frame.formattedPaths

====
